---- MODULE Spec2Model ----
(***************************************************************************)
(* Lifecycle-investing core (lifecycle_app/calculations): present values,  *)
(* durations, the portfolio optimizer and the year-by-year glide path.     *)
(*                                                                         *)
(* Numbers.  The Python code computes with floats; the model computes with *)
(* exact rationals <<numerator, denominator>> in lowest terms with a       *)
(* positive denominator, so a property that the code meets "within         *)
(* floating tolerance" is met exactly here.  A ZeroDivisionError raised by *)
(* a division or by a zero base under a negative power is the value Err,   *)
(* which every arithmetic operator propagates, as an uncaught exception    *)
(* propagates through the callers (no core function catches exceptions).   *)
(***************************************************************************)
EXTENDS Integers, Sequences, FiniteSets, TLC

\* ------------------------------------------------------------------------
\* Exact rational arithmetic standing for Python float arithmetic
\* ------------------------------------------------------------------------

Err == <<0, 0>>

None == <<0, -1>>

IsErr(x) == x[2] = 0

Abs(n) == IF n < 0 THEN -n ELSE n

RECURSIVE GCD(_, _)
GCD(a, b) == IF b = 0 THEN a ELSE GCD(b, a % b)

Norm(n, d) ==
    IF d = 0 THEN Err
    ELSE LET g == GCD(Abs(n), Abs(d))
             s == IF d < 0 THEN -1 ELSE 1
         IN  <<(s * n) \div g, (s * d) \div g>>

I(n) == <<n, 1>>

Zero == I(0)

One == I(1)

Half == <<1, 2>>

\* Sums and products cancel common factors before multiplying, which keeps
\* the intermediate integers small; the value is the exact sum or product.
RAdd(a, b) == IF IsErr(a) \/ IsErr(b) THEN Err
              ELSE LET g == GCD(a[2], b[2])
                   IN  Norm(a[1] * (b[2] \div g) + b[1] * (a[2] \div g),
                            (a[2] \div g) * b[2])

RNeg(a) == IF IsErr(a) THEN Err ELSE <<-a[1], a[2]>>

RSub(a, b) == RAdd(a, RNeg(b))

RMul(a, b) == IF IsErr(a) \/ IsErr(b) THEN Err
              ELSE LET g1 == GCD(Abs(a[1]), b[2])
                       g2 == GCD(Abs(b[1]), a[2])
                   IN  Norm((a[1] \div g1) * (b[1] \div g2),
                            (a[2] \div g2) * (b[2] \div g1))

RInv(a) == IF IsErr(a) \/ a[1] = 0 THEN Err ELSE Norm(a[2], a[1])

\* Python's float division: a zero divisor raises ZeroDivisionError.
RDiv(a, b) == RMul(a, RInv(b))

RSign(a) == IF a[1] > 0 THEN 1 ELSE IF a[1] < 0 THEN -1 ELSE 0

RLt(a, b) == RSign(RSub(a, b)) < 0

RLe(a, b) == RSign(RSub(a, b)) <= 0

\* Python's max(a, b) and min(a, b)
RMax(a, b) == IF IsErr(a) \/ IsErr(b) THEN Err ELSE IF RLt(a, b) THEN b ELSE a

RMin(a, b) == IF IsErr(a) \/ IsErr(b) THEN Err ELSE IF RLt(b, a) THEN b ELSE a

RECURSIVE RPowNat(_, _)
RPowNat(a, k) == IF k = 0 THEN One ELSE RMul(a, RPowNat(a, k - 1))

\* Python's a ** k for an integer k: a zero base under a negative power
\* raises ZeroDivisionError; 0 ** 0 is 1.
RPow(a, k) == IF IsErr(a) THEN Err
              ELSE IF k >= 0 THEN RPowNat(a, k)
              ELSE IF a[1] = 0 THEN Err
              ELSE RPowNat(RInv(a), -k)

IntMax(a, b) == IF a < b THEN b ELSE a

\* ------------------------------------------------------------------------
\* config.py
\* ------------------------------------------------------------------------

RISK_FREE_RATE == <<1, 50>>

STOCK_EXCESS_RETURN == <<1, 25>>

STOCK_VOLATILITY == <<9, 50>>

STOCK_VARIANCE == RPow(STOCK_VOLATILITY, 2)

BOND_EXCESS_RETURN == <<1, 100>>

BOND_VOLATILITY == <<9, 50>>

BOND_VARIANCE == RPow(BOND_VOLATILITY, 2)

LTPZ_DURATION == <<37, 2>>

STOCK_GEOMETRIC_EXCESS == RSub(STOCK_EXCESS_RETURN, RMul(Half, STOCK_VARIANCE))

BOND_GEOMETRIC_EXCESS == RSub(BOND_EXCESS_RETURN, RMul(Half, BOND_VARIANCE))

STOCK_GEOMETRIC_RETURN == RAdd(RISK_FREE_RATE, STOCK_GEOMETRIC_EXCESS)

BOND_GEOMETRIC_RETURN == RAdd(RISK_FREE_RATE, BOND_GEOMETRIC_EXCESS)

CASH_GEOMETRIC_RETURN == RISK_FREE_RATE

\* ------------------------------------------------------------------------
\* present_value.py
\* ------------------------------------------------------------------------

\* pv_annuity without the zero-rate branch.
pv_annuity_unguarded(payment, rate, n_periods) ==
    IF n_periods <= 0 THEN Zero
    ELSE LET annuity_factor ==
                 RDiv(RSub(One, RPow(RAdd(One, rate), -n_periods)), rate)
         IN  RMul(payment, annuity_factor)

\* pv_annuity with the zero-rate branch tested before the period count.
pv_annuity_rate_first(payment, rate, n_periods) ==
    IF rate = Zero THEN RMul(payment, I(n_periods))
    ELSE IF n_periods <= 0 THEN Zero
    ELSE LET annuity_factor ==
                 RDiv(RSub(One, RPow(RAdd(One, rate), -n_periods)), rate)
         IN  RMul(payment, annuity_factor)

\* pv_annuity with the future-value factor ((1 + rate)^n - 1) / rate.
pv_annuity_compounded(payment, rate, n_periods) ==
    IF n_periods <= 0 THEN Zero
    ELSE IF rate = Zero THEN RMul(payment, I(n_periods))
    ELSE LET annuity_factor ==
                 RDiv(RSub(RPow(RAdd(One, rate), n_periods), One), rate)
         IN  RMul(payment, annuity_factor)

pv_annuity(payment, rate, n_periods) ==
    IF n_periods <= 0 THEN Zero
    ELSE IF rate = Zero THEN RMul(payment, I(n_periods))
    ELSE LET annuity_factor ==
                 RDiv(RSub(One, RPow(RAdd(One, rate), -n_periods)), rate)
         IN  RMul(payment, annuity_factor)

\* pv_human_capital discounting at the risk-free rate alone.
pv_human_capital_riskless(annual_income, years_working, risk_free_rate, income_beta, equity_premium) ==
    pv_annuity(annual_income, risk_free_rate, years_working)

pv_human_capital(annual_income, years_working, risk_free_rate, income_beta, equity_premium) ==
    LET discount_rate == RAdd(risk_free_rate, RMul(income_beta, equity_premium))
    IN  pv_annuity(annual_income, discount_rate, years_working)

\* pv_expenses with the retirement annuity not discounted back to today.
pv_expenses_undiscounted(working_expenses, retirement_expenses, years_working, years_retirement, risk_free_rate) ==
    LET pv_working == pv_annuity(working_expenses, risk_free_rate, years_working)
        pv_retirement_at_retirement ==
            pv_annuity(retirement_expenses, risk_free_rate, years_retirement)
    IN  RAdd(pv_working, pv_retirement_at_retirement)

pv_expenses(working_expenses, retirement_expenses, years_working, years_retirement, risk_free_rate) ==
    LET pv_working == pv_annuity(working_expenses, risk_free_rate, years_working)
        pv_retirement_at_retirement ==
            pv_annuity(retirement_expenses, risk_free_rate, years_retirement)
        discount_factor ==
            IF risk_free_rate = Zero THEN One
            ELSE RPow(RAdd(One, risk_free_rate), -years_working)
        pv_retirement_today == RMul(pv_retirement_at_retirement, discount_factor)
    IN  RAdd(pv_working, pv_retirement_today)

total_wealth(financial_assets, pv_hc, pv_exp) ==
    RSub(RAdd(financial_assets, pv_hc), pv_exp)

\* ------------------------------------------------------------------------
\* duration.py
\* ------------------------------------------------------------------------

\* annuity_duration with n / 2 in the zero-rate branch.
annuity_duration_midpoint(rate, n_periods) ==
    IF n_periods <= 0 THEN Zero
    ELSE IF rate = Zero THEN RDiv(I(n_periods), I(2))
    ELSE LET term1 == RDiv(RAdd(One, rate), rate)
             term2 == RDiv(I(n_periods),
                           RSub(RPow(RAdd(One, rate), n_periods), One))
         IN  RSub(term1, term2)

annuity_duration(rate, n_periods) ==
    IF n_periods <= 0 THEN Zero
    ELSE IF rate = Zero THEN RDiv(I(n_periods + 1), I(2))
    ELSE LET term1 == RDiv(RAdd(One, rate), rate)
             term2 == RDiv(I(n_periods),
                           RSub(RPow(RAdd(One, rate), n_periods), One))
         IN  RSub(term1, term2)

human_capital_duration(years_working, risk_free_rate) ==
    annuity_duration(risk_free_rate, years_working)

\* expense_duration without the deferral years_working added to the
\* retirement stream's duration.
expense_duration_undeferred(years_working, years_retirement, working_expenses, retirement_expenses, risk_free_rate) ==
    IF years_working <= 0 /\ years_retirement <= 0 THEN Zero
    ELSE
    LET pv_working == pv_annuity(working_expenses, risk_free_rate, years_working)
        pv_retirement_at_retirement ==
            pv_annuity(retirement_expenses, risk_free_rate, years_retirement)
        discount_factor ==
            IF risk_free_rate = Zero THEN One
            ELSE RPow(RAdd(One, risk_free_rate), -years_working)
        pv_retirement_today == RMul(pv_retirement_at_retirement, discount_factor)
        total_pv == RAdd(pv_working, pv_retirement_today)
        duration_working == annuity_duration(risk_free_rate, years_working)
        duration_retirement == annuity_duration(risk_free_rate, years_retirement)
    IN  IF total_pv = Zero THEN Zero
        ELSE RDiv(RAdd(RMul(pv_working, duration_working),
                       RMul(pv_retirement_today, duration_retirement)),
                  total_pv)

expense_duration(years_working, years_retirement, working_expenses, retirement_expenses, risk_free_rate) ==
    IF years_working <= 0 /\ years_retirement <= 0 THEN Zero
    ELSE
    LET pv_working == pv_annuity(working_expenses, risk_free_rate, years_working)
        pv_retirement_at_retirement ==
            pv_annuity(retirement_expenses, risk_free_rate, years_retirement)
        discount_factor ==
            IF risk_free_rate = Zero THEN One
            ELSE RPow(RAdd(One, risk_free_rate), -years_working)
        pv_retirement_today == RMul(pv_retirement_at_retirement, discount_factor)
        total_pv == RAdd(pv_working, pv_retirement_today)
        duration_working == annuity_duration(risk_free_rate, years_working)
        duration_retirement_annuity ==
            annuity_duration(risk_free_rate, years_retirement)
        duration_retirement == RAdd(I(years_working), duration_retirement_annuity)
    IN  IF total_pv = Zero THEN Zero
        ELSE RDiv(RAdd(RMul(pv_working, duration_working),
                       RMul(pv_retirement_today, duration_retirement)),
                  total_pv)

\* ------------------------------------------------------------------------
\* optimization.py
\* ------------------------------------------------------------------------

Weights(s, b, c) == [stocks |-> s, bonds |-> b, cash |-> c]

\* The outcome of a call that ended in ZeroDivisionError.
Raised == Weights(Err, Err, Err)

AllCash == Weights(Zero, Zero, One)

\* The target weights with every weight clipped to [0, 1].
optimal_total_wealth_weights_clipped(risk_aversion, stock_excess_return, bond_excess_return, stock_variance, bond_variance) ==
    LET w_stock == RDiv(stock_excess_return, RMul(risk_aversion, stock_variance))
        w_bond == RDiv(bond_excess_return, RMul(risk_aversion, bond_variance))
        w_cash == RSub(RSub(One, w_stock), w_bond)
    IN  IF IsErr(w_stock) \/ IsErr(w_bond) THEN Weights(Err, Err, Err)
        ELSE Weights(RMax(Zero, RMin(One, w_stock)),
                     RMax(Zero, RMin(One, w_bond)),
                     RMax(Zero, RMin(One, w_cash)))

\* The target weights with risk aversion multiplying instead of dividing.
optimal_total_wealth_weights_scaled(risk_aversion, stock_excess_return, bond_excess_return, stock_variance, bond_variance) ==
    LET w_stock == RDiv(RMul(stock_excess_return, risk_aversion), stock_variance)
        w_bond == RDiv(RMul(bond_excess_return, risk_aversion), bond_variance)
        w_cash == RSub(RSub(One, w_stock), w_bond)
    IN  IF IsErr(w_stock) \/ IsErr(w_bond) \/ risk_aversion = Zero
        THEN Weights(Err, Err, Err)
        ELSE Weights(w_stock, w_bond, w_cash)

optimal_total_wealth_weights(risk_aversion, stock_excess_return, bond_excess_return, stock_variance, bond_variance) ==
    LET w_stock == RDiv(stock_excess_return, RMul(risk_aversion, stock_variance))
        w_bond == RDiv(bond_excess_return, RMul(risk_aversion, bond_variance))
        w_cash == RSub(RSub(One, w_stock), w_bond)
    IN  IF IsErr(w_stock) \/ IsErr(w_bond) THEN Raised
        ELSE Weights(w_stock, w_bond, w_cash)

\* Clip with the upper bound left out.
Clip_lower(w) == RMax(Zero, w)

\* Lines 169-171: clip one weight to [0, 1].
Clip(w) == RMax(Zero, RMin(One, w))

\* Renormalize with the division by total_weight left out.
Renormalize_skip(w_stock, w_bond, w_cash) ==
    LET total_weight == RAdd(RAdd(w_stock, w_bond), w_cash)
    IN  IF RLt(Zero, total_weight)
        THEN Weights(w_stock, w_bond, w_cash)
        ELSE AllCash

\* Lines 173-181: renormalise the clipped weights, all cash when they sum to 0.
Renormalize(w_stock, w_bond, w_cash) ==
    LET total_weight == RAdd(RAdd(w_stock, w_bond), w_cash)
    IN  IF RLt(Zero, total_weight)
        THEN Weights(RDiv(w_stock, total_weight), RDiv(w_bond, total_weight),
                     RDiv(w_cash, total_weight))
        ELSE AllCash

\* The optimizer with the fallback only for negative assets (< for <=).
financial_portfolio_weights_strict(total_w, financial_assets, pv_hc, hc_duration, pv_exp, exp_duration, optimal_weights, ltpz_duration, income_beta, constrained) ==
    LET bond_like_hc == RMul(pv_hc, RSub(One, income_beta))
        hc_bond_equiv == RMul(RDiv(hc_duration, ltpz_duration), bond_like_hc)
        exp_bond_equiv == RMul(RDiv(exp_duration, ltpz_duration), pv_exp)
        stocks_needed == RSub(RMul(optimal_weights.stocks, total_w),
                              RMul(pv_hc, income_beta))
        bonds_needed == RSub(RMul(optimal_weights.bonds, total_w),
                             RSub(hc_bond_equiv, exp_bond_equiv))
        cash_needed == RSub(RMul(optimal_weights.cash, total_w),
                            RSub(RSub(bond_like_hc, hc_bond_equiv),
                                 RSub(pv_exp, exp_bond_equiv)))
        w_stock == RDiv(stocks_needed, financial_assets)
        w_bond == RDiv(bonds_needed, financial_assets)
        w_cash == RDiv(cash_needed, financial_assets)
    IN  IF IsErr(stocks_needed) \/ IsErr(bonds_needed) \/ IsErr(cash_needed)
        THEN Raised
        ELSE IF RLt(financial_assets, Zero) THEN AllCash
        ELSE IF IsErr(w_stock) THEN Raised
        ELSE IF constrained
             THEN Renormalize(Clip(w_stock), Clip(w_bond), Clip(w_cash))
             ELSE Weights(w_stock, w_bond, w_cash)

\* The optimizer with the stocks and cash targets exchanged.
financial_portfolio_weights_swapped(total_w, financial_assets, pv_hc, hc_duration, pv_exp, exp_duration, optimal_weights, ltpz_duration, income_beta, constrained) ==
    LET bond_like_hc == RMul(pv_hc, RSub(One, income_beta))
        hc_bond_equiv == RMul(RDiv(hc_duration, ltpz_duration), bond_like_hc)
        hc_cash_equiv == RSub(bond_like_hc, hc_bond_equiv)
        hc_stock_equiv == RMul(pv_hc, income_beta)
        exp_bond_equiv == RMul(RDiv(exp_duration, ltpz_duration), pv_exp)
        exp_cash_equiv == RSub(pv_exp, exp_bond_equiv)
        net_stock_equiv == hc_stock_equiv
        net_bond_equiv == RSub(hc_bond_equiv, exp_bond_equiv)
        net_cash_equiv == RSub(hc_cash_equiv, exp_cash_equiv)
        target_stocks == RMul(optimal_weights.cash, total_w)
        target_bonds == RMul(optimal_weights.bonds, total_w)
        target_cash == RMul(optimal_weights.stocks, total_w)
        financial_stocks_needed == RSub(target_stocks, net_stock_equiv)
        financial_bonds_needed == RSub(target_bonds, net_bond_equiv)
        financial_cash_needed == RSub(target_cash, net_cash_equiv)
        w_stock == RDiv(financial_stocks_needed, financial_assets)
        w_bond == RDiv(financial_bonds_needed, financial_assets)
        w_cash == RDiv(financial_cash_needed, financial_assets)
    IN  IF \/ IsErr(financial_stocks_needed)
           \/ IsErr(financial_bonds_needed)
           \/ IsErr(financial_cash_needed)
        THEN Raised
        ELSE IF RLe(financial_assets, Zero) THEN AllCash
        ELSE IF constrained
             THEN Renormalize(Clip(w_stock), Clip(w_bond), Clip(w_cash))
             ELSE Weights(w_stock, w_bond, w_cash)

\* The optimizer with all of human capital treated as bond-like, on top of
\* the stock-like share.
financial_portfolio_weights_double_counted(total_w, financial_assets, pv_hc, hc_duration, pv_exp, exp_duration, optimal_weights, ltpz_duration, income_beta, constrained) ==
    LET bond_like_hc == pv_hc
        hc_bond_equiv == RMul(RDiv(hc_duration, ltpz_duration), bond_like_hc)
        hc_cash_equiv == RSub(bond_like_hc, hc_bond_equiv)
        hc_stock_equiv == RMul(pv_hc, income_beta)
        exp_bond_equiv == RMul(RDiv(exp_duration, ltpz_duration), pv_exp)
        exp_cash_equiv == RSub(pv_exp, exp_bond_equiv)
        net_stock_equiv == hc_stock_equiv
        net_bond_equiv == RSub(hc_bond_equiv, exp_bond_equiv)
        net_cash_equiv == RSub(hc_cash_equiv, exp_cash_equiv)
        target_stocks == RMul(optimal_weights.stocks, total_w)
        target_bonds == RMul(optimal_weights.bonds, total_w)
        target_cash == RMul(optimal_weights.cash, total_w)
        financial_stocks_needed == RSub(target_stocks, net_stock_equiv)
        financial_bonds_needed == RSub(target_bonds, net_bond_equiv)
        financial_cash_needed == RSub(target_cash, net_cash_equiv)
        w_stock == RDiv(financial_stocks_needed, financial_assets)
        w_bond == RDiv(financial_bonds_needed, financial_assets)
        w_cash == RDiv(financial_cash_needed, financial_assets)
    IN  IF \/ IsErr(financial_stocks_needed)
           \/ IsErr(financial_bonds_needed)
           \/ IsErr(financial_cash_needed)
        THEN Raised
        ELSE IF RLe(financial_assets, Zero) THEN AllCash
        ELSE IF constrained
             THEN Renormalize(Clip(w_stock), Clip(w_bond), Clip(w_cash))
             ELSE Weights(w_stock, w_bond, w_cash)

financial_portfolio_weights(total_w, financial_assets, pv_hc, hc_duration, pv_exp, exp_duration, optimal_weights, ltpz_duration, income_beta, constrained) ==
    LET bond_like_hc == RMul(pv_hc, RSub(One, income_beta))
        hc_bond_equiv == RMul(RDiv(hc_duration, ltpz_duration), bond_like_hc)
        hc_cash_equiv == RSub(bond_like_hc, hc_bond_equiv)
        hc_stock_equiv == RMul(pv_hc, income_beta)
        exp_bond_equiv == RMul(RDiv(exp_duration, ltpz_duration), pv_exp)
        exp_cash_equiv == RSub(pv_exp, exp_bond_equiv)
        net_stock_equiv == hc_stock_equiv
        net_bond_equiv == RSub(hc_bond_equiv, exp_bond_equiv)
        net_cash_equiv == RSub(hc_cash_equiv, exp_cash_equiv)
        target_stocks == RMul(optimal_weights.stocks, total_w)
        target_bonds == RMul(optimal_weights.bonds, total_w)
        target_cash == RMul(optimal_weights.cash, total_w)
        financial_stocks_needed == RSub(target_stocks, net_stock_equiv)
        financial_bonds_needed == RSub(target_bonds, net_bond_equiv)
        financial_cash_needed == RSub(target_cash, net_cash_equiv)
        w_stock == RDiv(financial_stocks_needed, financial_assets)
        w_bond == RDiv(financial_bonds_needed, financial_assets)
        w_cash == RDiv(financial_cash_needed, financial_assets)
    IN  IF \/ IsErr(financial_stocks_needed)
           \/ IsErr(financial_bonds_needed)
           \/ IsErr(financial_cash_needed)
        THEN Raised
        ELSE IF RLe(financial_assets, Zero) THEN AllCash
        ELSE IF constrained
             THEN Renormalize(Clip(w_stock), Clip(w_bond), Clip(w_cash))
             ELSE Weights(w_stock, w_bond, w_cash)

\* ------------------------------------------------------------------------
\* glide_path.py: compute_glide_path as a state machine
\* ------------------------------------------------------------------------

VARIABLES
    pc,                         \* position in the running call
    args,                       \* the arguments of compute_glide_path
    mkt,                        \* market locals after lines 96-109
    optimal_weights,            \* line 112
    age,                        \* the loop variable of line 126
    current_financial_wealth,   \* the carried wealth, lines 124 and 207-211
    records,                    \* the snapshots appended at line 182
    calls,                      \* the arguments of each call at line 169
    fargs,                      \* arguments of a direct optimizer call
    fret,                       \* what that call returned
    script,                     \* direct calls of the calculation functions
    results,                    \* what the calls made so far returned
    projection                  \* the table returned by project_wealth

vars == <<pc, args, mkt, optimal_weights, age, current_financial_wealth,
          records, calls, fargs, fret, script, results, projection>>

\* Lines 96-106: a market argument left at None takes the config default.
OrDefault(x, d) == IF x = None THEN d ELSE x

\* Lines 96-109
MarketLocals(a) ==
    LET sv == OrDefault(a.stock_volatility, STOCK_VOLATILITY)
        bv == OrDefault(a.bond_volatility, BOND_VOLATILITY)
    IN  [stock_excess_return |-> OrDefault(a.stock_excess_return, STOCK_EXCESS_RETURN),
         bond_excess_return |-> OrDefault(a.bond_excess_return, BOND_EXCESS_RETURN),
         stock_volatility |-> sv,
         bond_volatility |-> bv,
         ltpz_duration |-> OrDefault(a.ltpz_duration, LTPZ_DURATION),
         stock_variance |-> RPow(sv, 2),
         bond_variance |-> RPow(bv, 2)]

\* Target weights that let the income into the risk aversion.
TargetWeights_by_income(a, m) ==
    optimal_total_wealth_weights(RAdd(a.risk_aversion, a.annual_income),
                                 m.stock_excess_return, m.bond_excess_return,
                                 m.stock_variance, m.bond_variance)

\* Lines 112-118
TargetWeights(a, m) ==
    optimal_total_wealth_weights(a.risk_aversion, m.stock_excess_return,
                                 m.bond_excess_return, m.stock_variance,
                                 m.bond_variance)

\* years_to_retirement counting the retirement year as a working year.
years_to_retirement_late(a, g) == IntMax(0, a.retirement_age - g + 1)

\* years_to_retirement without the floor at 0.
years_to_retirement_unfloored(a, g) == a.retirement_age - g

\* Line 128
years_to_retirement(a, g) == IntMax(0, a.retirement_age - g)

\* The retirement years with the year of life_expectancy counted in.
years_retired_inclusive(a, g) ==
    IntMax(0, a.life_expectancy - IntMax(g, a.retirement_age) + 1)

\* The retirement years counted from the simulated age alone.
years_retired_from_age(a, g) == IntMax(0, a.life_expectancy - g)

\* Line 130
years_retired(a, g) ==
    IntMax(0, a.life_expectancy - IntMax(g, a.retirement_age))

\* Lines 133-138: pv_human_capital is called without income_beta and without
\* equity_premium, so both take the defaults of present_value.py.
hc_pv(a, years_working) ==
    IF years_working > 0
    THEN pv_human_capital(a.annual_income, years_working, a.risk_free_rate,
                          Zero, STOCK_EXCESS_RETURN)
    ELSE Zero

\* Lines 139-145
hc_duration(a, years_working) ==
    IF years_working > 0
    THEN annuity_duration(a.risk_free_rate, years_working)
    ELSE Zero

\* Lines 148-154
exp_pv(a, years_working, years_ret) ==
    pv_expenses(a.working_expenses, a.retirement_expenses, years_working,
                years_ret, a.risk_free_rate)

\* Lines 157-163
exp_dur(a, years_working, years_ret) ==
    expense_duration(years_working, years_ret, a.working_expenses,
                     a.retirement_expenses, a.risk_free_rate)

\* Total wealth from the initial assets instead of the projected wealth.
total_w_initial(a, wealth, hc, ex) == RSub(RAdd(a.financial_assets, hc), ex)

\* Line 166
total_w(a, wealth, hc, ex) == RSub(RAdd(wealth, hc), ex)

\* Lines 127-166: the locals of one iteration, before the optimizer call.
YearLocals(a, wealth, g) ==
    LET yw == years_to_retirement(a, g)
        yr == years_retired(a, g)
        hc == hc_pv(a, yw)
        ex == exp_pv(a, yw, yr)
    IN  [years_to_retirement |-> yw,
         years_working |-> yw,
         years_retired |-> yr,
         hc_pv |-> hc,
         hc_duration |-> hc_duration(a, yw),
         exp_pv |-> ex,
         exp_dur |-> exp_dur(a, yw, yr),
         total_w |-> total_w(a, wealth, hc, ex)]

\* Lines 169-180: the keyword arguments of the optimizer call.
FpwCall(a, m, ow, wealth, L) ==
    [total_wealth |-> L.total_w,
     financial_assets |-> wealth,
     pv_human_capital |-> L.hc_pv,
     human_capital_duration |-> L.hc_duration,
     pv_expenses |-> L.exp_pv,
     expense_duration |-> L.exp_dur,
     optimal_weights |-> ow,
     ltpz_duration |-> m.ltpz_duration,
     income_beta |-> a.income_beta,
     constrained |-> TRUE]

Apply_financial_portfolio_weights(c) ==
    financial_portfolio_weights(c.total_wealth, c.financial_assets,
                                c.pv_human_capital, c.human_capital_duration,
                                c.pv_expenses, c.expense_duration,
                                c.optimal_weights, c.ltpz_duration,
                                c.income_beta, c.constrained)

\* Lines 182-192
Snapshot(g, L, wealth, w) ==
    [age |-> g,
     years_to_retirement |-> L.years_to_retirement,
     pv_human_capital |-> L.hc_pv,
     pv_expenses |-> L.exp_pv,
     total_wealth |-> L.total_w,
     financial_wealth |-> wealth,
     stock_weight |-> w.stocks,
     bond_weight |-> w.bonds,
     cash_weight |-> w.cash]

\* The portfolio return with the stock and bond returns exchanged.
portfolio_return_swapped(a, w) ==
    RAdd(RAdd(RMul(w.stocks, a.bond_geo_return),
              RMul(w.bonds, a.stock_geo_return)),
         RMul(w.cash, a.cash_return))

\* Lines 195-199
portfolio_return(a, w) ==
    RAdd(RAdd(RMul(w.stocks, a.stock_geo_return),
              RMul(w.bonds, a.bond_geo_return)),
         RMul(w.cash, a.cash_return))

\* The cash flow of a working year in every year.
annual_cashflow_always_saving(a, years_working) ==
    RSub(a.annual_income, a.working_expenses)

\* Lines 202-205
annual_cashflow(a, years_working) ==
    IF years_working > 0
    THEN RSub(a.annual_income, a.working_expenses)
    ELSE RNeg(a.retirement_expenses)

\* The projection without the floor at zero.
next_financial_wealth_unfloored(a, wealth, w, years_working) ==
    RAdd(RMul(wealth, RAdd(One, portfolio_return(a, w))),
         annual_cashflow(a, years_working))

\* Lines 207-211
next_financial_wealth(a, wealth, w, years_working) ==
    RMax(Zero, RAdd(RMul(wealth, RAdd(One, portfolio_return(a, w))),
                    annual_cashflow(a, years_working)))

\* A call of the iteration raised ZeroDivisionError (lines 134-180).
YearRaises(L, w) ==
    \/ IsErr(L.hc_pv) \/ IsErr(L.hc_duration)
    \/ IsErr(L.exp_pv) \/ IsErr(L.exp_dur)
    \/ IsErr(w.stocks)

\* The range with its end at life_expectancy instead of life_expectancy + 1.
AgeInRange_exclusive(a, g) == g < a.life_expectancy

\* Line 126: age is in range(current_age, life_expectancy + 1).
AgeInRange(a, g) == g <= a.life_expectancy

\* A call that goes on from the snapshot list of the call before it, as a
\* list kept outside the function body would.
Start_resumed ==
    /\ pc = "start"
    /\ LET m == MarketLocals(args)
           ow == TargetWeights(args, m)
       IN  /\ mkt' = m
           /\ optimal_weights' = ow
           /\ pc' = IF IsErr(ow.stocks) THEN "error" ELSE "loop"
    /\ current_financial_wealth' = args.financial_assets
    /\ age' = args.current_age
    /\ UNCHANGED <<args, records, calls, fargs, fret, script, results, projection>>

\* Lines 96-124: defaults, variances, the target weights, the initial wealth.
Start ==
    /\ pc = "start"
    /\ LET m == MarketLocals(args)
           ow == TargetWeights(args, m)
       IN  /\ mkt' = m
           /\ optimal_weights' = ow
           /\ pc' = IF IsErr(ow.stocks) THEN "error" ELSE "loop"
    /\ records' = <<>>
    /\ calls' = <<>>
    /\ current_financial_wealth' = args.financial_assets
    /\ age' = args.current_age
    /\ UNCHANGED <<args, fargs, fret, script, results, projection>>

\* Lines 126-211: one iteration of the loop.  An exception leaves the
\* function at once; nothing is appended and nothing is returned.
Year ==
    /\ pc = "loop"
    /\ AgeInRange(args, age)
    /\ LET L == YearLocals(args, current_financial_wealth, age)
           c == FpwCall(args, mkt, optimal_weights, current_financial_wealth, L)
           fin_weights == Apply_financial_portfolio_weights(c)
       IN  IF YearRaises(L, fin_weights)
           THEN /\ pc' = "error"
                /\ UNCHANGED <<age, current_financial_wealth, records, calls>>
           ELSE /\ pc' = "loop"
                /\ calls' = Append(calls, c)
                /\ records' = Append(records,
                                     Snapshot(age, L, current_financial_wealth,
                                              fin_weights))
                /\ current_financial_wealth' =
                       next_financial_wealth(args, current_financial_wealth,
                                             fin_weights, L.years_working)
                /\ age' = age + 1
    /\ UNCHANGED <<args, mkt, optimal_weights, fargs, fret, script, results,
                   projection>>

\* Line 213: the range is exhausted and the records are returned.
Return ==
    /\ pc = "loop"
    /\ ~AgeInRange(args, age)
    /\ pc' = "done"
    /\ UNCHANGED <<args, mkt, optimal_weights, age, current_financial_wealth,
                   records, calls, fargs, fret, script, results, projection>>

Next == Start \/ Year \/ Return

\* ------------------------------------------------------------------------
\* Inputs
\* ------------------------------------------------------------------------

MaxAge == 3

Ages == 0 .. MaxAge

StartAges == {0, 1}

NoMarket == [stock_excess_return |-> Zero, bond_excess_return |-> Zero,
             stock_volatility |-> Zero, bond_volatility |-> Zero,
             ltpz_duration |-> Zero, stock_variance |-> Zero,
             bond_variance |-> Zero]

NoCall == [total_wealth |-> Zero, financial_assets |-> Zero,
           pv_human_capital |-> Zero, human_capital_duration |-> Zero,
           pv_expenses |-> Zero, expense_duration |-> Zero,
           optimal_weights |-> AllCash, ltpz_duration |-> One,
           income_beta |-> Zero, constrained |-> TRUE]

\* Investors and markets inside the documented domain: risk aversion > 0,
\* volatilities > 0, benchmark duration > 0, discount rate >= 0.  The three
\* ages are unordered, initial assets may be negative, expenses may exceed
\* income and the stock return may be below -100%.
ArgSpace ==
    [current_age : StartAges, retirement_age : Ages, life_expectancy : Ages,
     annual_income : {Zero, I(2)},
     working_expenses : {One},
     retirement_expenses : {Zero, I(2)},
     financial_assets : {I(-1), Zero, I(4)},
     risk_aversion : {One, I(2)},
     income_beta : {Zero, Half},
     risk_free_rate : {Zero, One},
     stock_excess_return : {One},
     bond_excess_return : {Half},
     stock_volatility : {One},
     bond_volatility : {One},
     ltpz_duration : {I(2)},
     stock_geo_return : {Half, I(-2)},
     bond_geo_return : {Half},
     cash_return : {Half}]

SkewYears == 2

\* The wealth fraction of a run whose return depends on the weights squares
\* its denominator every year.  Such runs are kept to SkewYears snapshots,
\* or to a retiree without expenses (whose weights do not change), so that
\* the exact fractions stay within TLC's integers.
Tractable(a) ==
    \/ a.stock_geo_return = a.cash_return
    \/ a.life_expectancy - a.current_age < SkewYears /\ a.risk_free_rate = Zero
    \/ a.retirement_age <= a.current_age /\ a.retirement_expenses = Zero

ValidArgs == {a \in ArgSpace : Tractable(a)}

InitCommon ==
    /\ pc = "start"
    /\ mkt = NoMarket
    /\ optimal_weights = AllCash
    /\ age = 0
    /\ current_financial_wealth = Zero
    /\ records = <<>>
    /\ calls = <<>>
    /\ fargs = NoCall
    /\ fret = AllCash
    /\ script = <<>>
    /\ results = <<>>
    /\ projection = <<>>

Init == args \in ValidArgs /\ InitCommon

Spec == Init /\ [][Next]_vars

\* Arguments outside the documented domain as well: zero and negative risk
\* aversion, zero volatilities, a zero or negative benchmark duration and
\* discount rates down to -200%.
AnyArgs ==
    [current_age : StartAges, retirement_age : Ages, life_expectancy : Ages,
     annual_income : {I(2)},
     working_expenses : {One},
     retirement_expenses : {I(2)},
     financial_assets : {Zero, I(4)},
     risk_aversion : {I(-1), Zero, One},
     income_beta : {Zero},
     risk_free_rate : {I(-2), I(-1), <<-1, 2>>, Zero, One},
     stock_excess_return : {One},
     bond_excess_return : {Half},
     stock_volatility : {Zero, One},
     bond_volatility : {Zero, One},
     ltpz_duration : {I(-2), Zero, I(2)},
     stock_geo_return : {Half},
     bond_geo_return : {Half},
     cash_return : {Half}]

InitAny == args \in AnyArgs /\ InitCommon

SpecAny == InitAny /\ [][Next]_vars

\* ------------------------------------------------------------------------
\* financial_portfolio_weights called directly
\* ------------------------------------------------------------------------

FpwArgs ==
    [total_wealth : {I(-1), Zero, I(2), I(4)},
     financial_assets : {I(-1), Zero, One, I(2)},
     pv_human_capital : {Zero, I(3)},
     human_capital_duration : {Zero, One},
     pv_expenses : {Zero, One},
     expense_duration : {Zero, I(2)},
     optimal_weights : {Weights(Half, <<1, 4>>, <<1, 4>>),
                        Weights(I(2), I(-1), Zero),
                        Weights(I(-1), I(-1), I(3))},
     ltpz_duration : {Zero, I(2)},
     income_beta : {Zero, Half},
     constrained : BOOLEAN]

\* The glide-path variables stay idle while the optimizer is called directly.
NoArgs ==
    [current_age |-> 0, retirement_age |-> 0, life_expectancy |-> 0,
     annual_income |-> Zero, working_expenses |-> Zero,
     retirement_expenses |-> Zero, financial_assets |-> Zero,
     risk_aversion |-> One, income_beta |-> Zero, risk_free_rate |-> Zero,
     stock_excess_return |-> None, bond_excess_return |-> None,
     stock_volatility |-> None, bond_volatility |-> None,
     ltpz_duration |-> None, stock_geo_return |-> STOCK_GEOMETRIC_RETURN,
     bond_geo_return |-> BOND_GEOMETRIC_RETURN,
     cash_return |-> CASH_GEOMETRIC_RETURN]

InitFpw ==
    /\ pc = "call"
    /\ fargs \in FpwArgs
    /\ fret = AllCash
    /\ args = NoArgs
    /\ mkt = NoMarket
    /\ optimal_weights = AllCash
    /\ age = 0
    /\ current_financial_wealth = Zero
    /\ records = <<>>
    /\ calls = <<>>
    /\ script = <<>>
    /\ results = <<>>
    /\ projection = <<>>

CallFpw ==
    /\ pc = "call"
    /\ fret' = Apply_financial_portfolio_weights(fargs)
    /\ pc' = "returned"
    /\ UNCHANGED <<args, mkt, optimal_weights, age, current_financial_wealth,
                   records, calls, fargs, script, results, projection>>

NextFpw == CallFpw

SpecFpw == InitFpw /\ [][NextFpw]_vars

\* ------------------------------------------------------------------------
\* glide_path.py: project_wealth applied to the returned table
\* ------------------------------------------------------------------------

\* A table built from a list of records has the records' keys as columns;
\* built from an empty list it has no columns at all.
HasColumn(df, column) == df # <<>> /\ \A i \in DOMAIN df : column \in DOMAIN df[i]

\* The table with the column set, row by row, to the values of another.
WithColumn(df, column, from) == [i \in DOMAIN df |-> (column :> df[i][from]) @@ df[i]]

\* project_wealth without the copy: the column is written to the input.
project_wealth_in_place(glide_path_df, annual_savings, stock_geo_return, bond_geo_return, cash_return) ==
    IF ~HasColumn(glide_path_df, "financial_wealth")
    THEN [raised |-> TRUE, glide_path_df |-> glide_path_df, df |-> <<>>]
    ELSE LET df == WithColumn(glide_path_df, "projected_financial_wealth", "financial_wealth")
         IN  [raised |-> FALSE, glide_path_df |-> df, df |-> df]

\* Lines 240-243.  The result holds the returned table df and the input
\* table as the call leaves it; reading a column the table does not have
\* raises KeyError.
project_wealth(glide_path_df, annual_savings, stock_geo_return, bond_geo_return, cash_return) ==
    IF ~HasColumn(glide_path_df, "financial_wealth")
    THEN [raised |-> TRUE, glide_path_df |-> glide_path_df, df |-> <<>>]
    ELSE LET df == WithColumn(glide_path_df, "projected_financial_wealth", "financial_wealth")
         IN  [raised |-> FALSE, glide_path_df |-> glide_path_df, df |-> df]

\* dashboard.py lines 336-339: the table compute_glide_path returned is
\* handed to project_wealth.
ProjectWealth ==
    /\ pc = "done"
    /\ \E annual_savings \in {Zero, I(3)}, stock_geo_return \in {STOCK_GEOMETRIC_RETURN, One}, cash_return \in {CASH_GEOMETRIC_RETURN, Zero} :
           LET out == project_wealth(records, annual_savings, stock_geo_return, BOND_GEOMETRIC_RETURN, cash_return)
           IN  /\ records' = out.glide_path_df
               /\ projection' = out.df
               /\ pc' = IF out.raised THEN "key_error" ELSE "projected"
    /\ UNCHANGED <<args, mkt, optimal_weights, age, current_financial_wealth, calls, fargs, fret, script, results>>

NextView == Start \/ Year \/ Return \/ ProjectWealth

SpecView == Init /\ [][NextView]_vars

\* ------------------------------------------------------------------------
\* compute_glide_path called a second time with the same arguments
\* ------------------------------------------------------------------------

\* dashboard.py lines 307-326 run on every rerun of the page: the table of
\* the first call is kept in results and the function is entered again with
\* the same arguments.  Whatever the first call left behind is still there
\* when the second call starts.
CallAgain ==
    /\ pc = "done"
    /\ results = <<>>
    /\ results' = <<records>>
    /\ pc' = "start"
    /\ UNCHANGED <<args, mkt, optimal_weights, age, current_financial_wealth, records, calls, fargs, fret, script, projection>>

NextAgain == Start \/ Year \/ Return \/ CallAgain

SpecAgain == Init /\ [][NextAgain]_vars

\* ------------------------------------------------------------------------
\* compute_glide_path called with some market arguments left out
\* ------------------------------------------------------------------------

\* Lines 40-49: a keyword the caller leaves out (None here) takes the default
\* of the signature.  The excess returns, the volatilities and the benchmark
\* duration default to None and are resolved later, at lines 96-106; the
\* risk-free rate and the three returns default to constants of config.py.
Bind(kw) ==
    [current_age |-> kw.current_age,
     retirement_age |-> kw.retirement_age,
     life_expectancy |-> kw.life_expectancy,
     annual_income |-> kw.annual_income,
     working_expenses |-> kw.working_expenses,
     retirement_expenses |-> kw.retirement_expenses,
     financial_assets |-> kw.financial_assets,
     risk_aversion |-> kw.risk_aversion,
     income_beta |-> OrDefault(kw.income_beta, Zero),
     risk_free_rate |-> OrDefault(kw.risk_free_rate, RISK_FREE_RATE),
     stock_excess_return |-> kw.stock_excess_return,
     bond_excess_return |-> kw.bond_excess_return,
     stock_volatility |-> kw.stock_volatility,
     bond_volatility |-> kw.bond_volatility,
     ltpz_duration |-> kw.ltpz_duration,
     stock_geo_return |-> OrDefault(kw.stock_geo_return, STOCK_GEOMETRIC_RETURN),
     bond_geo_return |-> OrDefault(kw.bond_geo_return, BOND_GEOMETRIC_RETURN),
     cash_return |-> OrDefault(kw.cash_return, CASH_GEOMETRIC_RETURN)]

\* Calls of one simulated year, working or retired, in which the risk-free
\* rate, each excess return and each volatility is either left out or
\* overridden, and the three returns are left out.
Keywords ==
    [current_age : {0}, retirement_age : {0, 1}, life_expectancy : {0},
     annual_income : {Zero, I(2)},
     working_expenses : {Zero},
     retirement_expenses : {Zero},
     financial_assets : {I(4)},
     risk_aversion : {I(2), I(4)},
     income_beta : {None},
     risk_free_rate : {None, Zero, <<1, 20>>},
     stock_excess_return : {None, Half},
     bond_excess_return : {None, <<1, 4>>},
     stock_volatility : {None, One},
     bond_volatility : {None, One},
     ltpz_duration : {I(2)},
     stock_geo_return : {None},
     bond_geo_return : {None},
     cash_return : {None}]

InitBind == args \in {Bind(kw) : kw \in Keywords} /\ InitCommon

SpecBind == InitBind /\ [][Next]_vars

\* ------------------------------------------------------------------------
\* main.py: the application's main flow, from the sidebar to the dashboard
\* ------------------------------------------------------------------------

\* The check of the ages with "or" in place of "and".
valid_inputs_either(inputs) ==
    \/ inputs.retirement_age > inputs.current_age
    \/ inputs.life_expectancy > inputs.retirement_age

\* main.py lines 91-94
valid_inputs(inputs) ==
    /\ inputs.retirement_age > inputs.current_age
    /\ inputs.life_expectancy > inputs.retirement_age

\* dashboard.py lines 171-177: both durations are asked for without a rate,
\* so duration.py uses its default, the RISK_FREE_RATE of config.py.
PointInTimeDurations(a, years_working, years_retirement) ==
    [hc_duration |-> human_capital_duration(years_working, RISK_FREE_RATE),
     exp_duration |-> expense_duration(years_working, years_retirement, a.working_expenses, a.retirement_expenses, RISK_FREE_RATE)]

\* dashboard.py lines 137-200: the values for the current age, as the keyword
\* arguments of the optimizer call that ends the computation.
PointInTime(a) ==
    LET years_working == IntMax(0, a.retirement_age - a.current_age)
        years_retirement == IntMax(0, a.life_expectancy - a.retirement_age)
        stock_variance == RPow(a.stock_volatility, 2)
        bond_variance == RPow(a.bond_volatility, 2)
        pv_hc == pv_human_capital(a.annual_income, years_working, a.risk_free_rate, a.income_beta, a.stock_excess_return)
        pv_exp == pv_expenses(a.working_expenses, a.retirement_expenses, years_working, years_retirement, a.risk_free_rate)
        d == PointInTimeDurations(a, years_working, years_retirement)
    IN  [total_wealth |-> total_wealth(a.financial_assets, pv_hc, pv_exp),
         financial_assets |-> a.financial_assets,
         pv_human_capital |-> pv_hc,
         human_capital_duration |-> d.hc_duration,
         pv_expenses |-> pv_exp,
         expense_duration |-> d.exp_duration,
         optimal_weights |-> optimal_total_wealth_weights(a.risk_aversion, a.stock_excess_return, a.bond_excess_return, stock_variance, bond_variance),
         ltpz_duration |-> a.ltpz_duration,
         income_beta |-> a.income_beta,
         constrained |-> TRUE]

\* dashboard.py lines 142-147 and 307-326: the arguments handed to
\* compute_glide_path, with the geometric returns derived from the
\* assumptions of the dashboard and the cash return set to the risk-free rate.
GlidePathCall(a) ==
    [a EXCEPT !.stock_geo_return = RSub(RAdd(a.risk_free_rate, a.stock_excess_return), RMul(Half, RPow(a.stock_volatility, 2))),
              !.bond_geo_return = RSub(RAdd(a.risk_free_rate, a.bond_excess_return), RMul(Half, RPow(a.bond_volatility, 2))),
              !.cash_return = a.risk_free_rate]

\* main.py lines 96-101: the ages are out of order; a warning is shown and
\* main returns.
Warn ==
    /\ pc = "main"
    /\ ~valid_inputs(args)
    /\ pc' = "warned"
    /\ UNCHANGED <<args, mkt, optimal_weights, age, current_financial_wealth, records, calls, fargs, fret, script, results, projection>>

\* A call of the point-in-time computation raised ZeroDivisionError.
PointInTimeRaises(c, w) ==
    \/ IsErr(c.pv_human_capital) \/ IsErr(c.pv_expenses)
    \/ IsErr(c.human_capital_duration) \/ IsErr(c.expense_duration)
    \/ IsErr(c.optimal_weights.stocks) \/ IsErr(w.stocks)

\* main.py lines 103-118 and dashboard.py lines 59-326: the dashboard
\* computes the point-in-time values and calls compute_glide_path.  An
\* exception leaves render_dashboard and is reported by main (lines 119-125).
RenderDashboard ==
    /\ pc = "main"
    /\ valid_inputs(args)
    /\ fargs' = PointInTime(args)
    /\ fret' = Apply_financial_portfolio_weights(fargs')
    /\ pc' = IF PointInTimeRaises(fargs', fret') THEN "error" ELSE "start"
    /\ args' = GlidePathCall(args)
    /\ UNCHANGED <<mkt, optimal_weights, age, current_financial_wealth, records, calls, script, results, projection>>

NextMain == Warn \/ RenderDashboard \/ Start \/ Year \/ Return \/ ProjectWealth

\* What render_sidebar returns (sidebar.py lines 175-185) together with the
\* assumptions of the dashboard's inputs (dashboard.py lines 70-131).  The
\* three age sliders overlap, so the ages come in any order; amounts are
\* >= 0, risk aversion >= 1, income_beta is one of the two income types,
\* rates are within 0..20%, volatilities within 1..50% and the benchmark
\* duration within 1..30.  The returns are set by the dashboard later.
SidebarInputs ==
    [current_age : {0, 1}, retirement_age : {0, 1, 2}, life_expectancy : {1, 2},
     annual_income : {Zero, I(2)},
     working_expenses : {One},
     retirement_expenses : {Zero, I(2)},
     financial_assets : {Zero, I(4)},
     risk_aversion : {One, I(2)},
     income_beta : {Zero, <<2, 5>>},
     risk_free_rate : {Zero, RISK_FREE_RATE},
     stock_excess_return : {<<1, 8>>},
     bond_excess_return : {<<1, 8>>},
     stock_volatility : {Half},
     bond_volatility : {Half},
     ltpz_duration : {I(2)},
     stock_geo_return : {None},
     bond_geo_return : {None},
     cash_return : {None}]

InitMain ==
    /\ pc = "main"
    /\ args \in SidebarInputs
    /\ mkt = NoMarket
    /\ optimal_weights = AllCash
    /\ age = 0
    /\ current_financial_wealth = Zero
    /\ records = <<>>
    /\ calls = <<>>
    /\ fargs = NoCall
    /\ fret = AllCash
    /\ script = <<>>
    /\ results = <<>>
    /\ projection = <<>>

SpecMain == InitMain /\ [][NextMain]_vars

\* ------------------------------------------------------------------------
\* The calculation functions called directly
\* ------------------------------------------------------------------------

\* A script is a list of calls, each a function name with its arguments.
\* The calls are made in order and each return value is recorded.
Call(fn, a) == [fn |-> fn, args |-> a]

Pending == Len(results) < Len(script)

NextCall == script[Len(results) + 1]

Call_pv_annuity ==
    /\ pc = "calc"
    /\ Pending
    /\ NextCall.fn = "pv_annuity"
    /\ results' = Append(results, pv_annuity(NextCall.args.payment, NextCall.args.rate, NextCall.args.n_periods))
    /\ UNCHANGED <<pc, args, mkt, optimal_weights, age, current_financial_wealth, records, calls, fargs, fret, script, projection>>

Call_annuity_duration ==
    /\ pc = "calc"
    /\ Pending
    /\ NextCall.fn = "annuity_duration"
    /\ results' = Append(results, annuity_duration(NextCall.args.rate, NextCall.args.n_periods))
    /\ UNCHANGED <<pc, args, mkt, optimal_weights, age, current_financial_wealth, records, calls, fargs, fret, script, projection>>

Call_pv_human_capital ==
    /\ pc = "calc"
    /\ Pending
    /\ NextCall.fn = "pv_human_capital"
    /\ LET a == NextCall.args
       IN  results' = Append(results, pv_human_capital(a.annual_income, a.years_working, a.risk_free_rate, a.income_beta, a.equity_premium))
    /\ UNCHANGED <<pc, args, mkt, optimal_weights, age, current_financial_wealth, records, calls, fargs, fret, script, projection>>

Call_pv_expenses ==
    /\ pc = "calc"
    /\ Pending
    /\ NextCall.fn = "pv_expenses"
    /\ LET a == NextCall.args
       IN  results' = Append(results, pv_expenses(a.working_expenses, a.retirement_expenses, a.years_working, a.years_retirement, a.risk_free_rate))
    /\ UNCHANGED <<pc, args, mkt, optimal_weights, age, current_financial_wealth, records, calls, fargs, fret, script, projection>>

Call_expense_duration ==
    /\ pc = "calc"
    /\ Pending
    /\ NextCall.fn = "expense_duration"
    /\ LET a == NextCall.args
       IN  results' = Append(results, expense_duration(a.years_working, a.years_retirement, a.working_expenses, a.retirement_expenses, a.risk_free_rate))
    /\ UNCHANGED <<pc, args, mkt, optimal_weights, age, current_financial_wealth, records, calls, fargs, fret, script, projection>>

Call_optimal_total_wealth_weights ==
    /\ pc = "calc"
    /\ Pending
    /\ NextCall.fn = "optimal_total_wealth_weights"
    /\ LET a == NextCall.args
       IN  results' = Append(results, optimal_total_wealth_weights(a.risk_aversion, a.stock_excess_return, a.bond_excess_return, a.stock_variance, a.bond_variance))
    /\ UNCHANGED <<pc, args, mkt, optimal_weights, age, current_financial_wealth, records, calls, fargs, fret, script, projection>>

\* The optimizer is given the target weights that the call before it returned
\* (test_optimization.py lines 369-379).
Call_financial_portfolio_weights ==
    /\ pc = "calc"
    /\ Pending
    /\ NextCall.fn = "financial_portfolio_weights"
    /\ Len(results) > 0
    /\ LET a == NextCall.args
           optimal == results[Len(results)]
       IN  results' = Append(results, financial_portfolio_weights(a.total_wealth, a.financial_assets, a.pv_human_capital, a.human_capital_duration, a.pv_expenses, a.expense_duration, optimal, a.ltpz_duration, a.income_beta, a.constrained))
    /\ UNCHANGED <<pc, args, mkt, optimal_weights, age, current_financial_wealth, records, calls, fargs, fret, script, projection>>

NextCalc ==
    \/ Call_pv_annuity
    \/ Call_annuity_duration
    \/ Call_pv_human_capital
    \/ Call_pv_expenses
    \/ Call_expense_duration
    \/ Call_optimal_total_wealth_weights
    \/ Call_financial_portfolio_weights

\* Period counts from -1 up to the longest horizon of the model.
Periods == -1 .. MaxAge

\* Discount rates on both sides of 0 and of -100%.
Rates == {I(-2), I(-1), <<-1, 2>>, Zero, Half, One}

\* pv_annuity twice, with the rate changed and the rest held fixed.
PvAnnuityScripts ==
    {<<Call("pv_annuity", [payment |-> p, rate |-> r1, n_periods |-> n]),
       Call("pv_annuity", [payment |-> p, rate |-> r2, n_periods |-> n])>> :
        p \in {I(-1), Zero, I(2)}, n \in Periods, r1 \in Rates, r2 \in Rates}

\* The present value and the duration of one stream.
StreamScripts ==
    {<<Call("pv_annuity", [payment |-> p, rate |-> r, n_periods |-> n]),
       Call("annuity_duration", [rate |-> r, n_periods |-> n])>> :
        p \in {I(-1), Zero, I(2)}, r \in Rates, n \in Periods}

\* pv_human_capital twice, with income_beta changed and the rest held fixed.
HumanCapitalScripts ==
    {<<Call("pv_human_capital", [annual_income |-> y, years_working |-> n, risk_free_rate |-> r, income_beta |-> b1, equity_premium |-> e]),
       Call("pv_human_capital", [annual_income |-> y, years_working |-> n, risk_free_rate |-> r, income_beta |-> b2, equity_premium |-> e])>> :
        y \in {Zero, I(2)}, n \in Periods, r \in {I(-2), <<-1, 2>>, Zero, Half},
        b1 \in {Zero, Half, One}, b2 \in {Zero, Half, One},
        e \in {I(-1), Zero, One}}

ExpenseArgs ==
    [working_expenses : {Zero, One}, retirement_expenses : {Zero, I(2), I(-1)},
     years_working : Periods, years_retirement : Periods,
     risk_free_rate : {I(-2), I(-1), Zero, One}]

PvExpensesScripts == {<<Call("pv_expenses", a)>> : a \in ExpenseArgs}

ExpenseDurationScripts == {<<Call("expense_duration", a)>> : a \in ExpenseArgs}

\* pv_expenses with one expense level in both phases, then pv_annuity of
\* that level over the two phases together.
LevelExpenseScripts ==
    {<<Call("pv_expenses", [working_expenses |-> e, retirement_expenses |-> e, years_working |-> yw, years_retirement |-> yr, risk_free_rate |-> r]),
       Call("pv_annuity", [payment |-> e, rate |-> r, n_periods |-> yw + yr])>> :
        e \in {I(-1), Zero, I(2)}, yw \in Periods, yr \in Periods, r \in Rates}

\* pv_expenses at retirement (or past it), then pv_annuity of the retirement
\* expenses alone.
RetiredExpenseScripts ==
    {<<Call("pv_expenses", [working_expenses |-> w, retirement_expenses |-> e, years_working |-> yw, years_retirement |-> yr, risk_free_rate |-> r]),
       Call("pv_annuity", [payment |-> e, rate |-> r, n_periods |-> yr])>> :
        w \in {Zero, One}, e \in {I(-1), Zero, I(2)}, yw \in {0, 1}, yr \in Periods, r \in Rates}

RiskAversions == {I(-1), Zero, Half, One, I(2), I(4)}

MarketArgs ==
    [stock_excess_return : {I(-1), Zero, One, I(4)},
     bond_excess_return : {<<-1, 2>>, Half},
     stock_variance : {Zero, One, I(2)},
     bond_variance : {One}]

TargetCall(g, m) == Call("optimal_total_wealth_weights", [risk_aversion |-> g, stock_excess_return |-> m.stock_excess_return, bond_excess_return |-> m.bond_excess_return, stock_variance |-> m.stock_variance, bond_variance |-> m.bond_variance])

\* optimal_total_wealth_weights twice, with risk_aversion changed.
TargetScripts ==
    {<<TargetCall(g1, m), TargetCall(g2, m)>> :
        g1 \in RiskAversions, g2 \in RiskAversions, m \in MarketArgs}

\* An investor whose whole wealth is financial: no human capital and no
\* expenses (test_optimization.py lines 370-379).
FinancialOnlyArgs ==
    [total_wealth : {I(4)}, financial_assets : {I(4)},
     pv_human_capital : {Zero}, human_capital_duration : {Zero, One},
     pv_expenses : {Zero}, expense_duration : {Zero},
     ltpz_duration : {I(2)}, income_beta : {Zero, Half},
     constrained : {TRUE}]

InvestorMarkets ==
    [stock_excess_return : {Zero, One, I(4)},
     bond_excess_return : {<<-1, 2>>, Half},
     stock_variance : {One},
     bond_variance : {One}]

\* Two investors that differ in risk aversion only: for each, the target
\* weights and then the financial weights built from them.
InvestorScripts ==
    {<<TargetCall(g1, m), Call("financial_portfolio_weights", f),
       TargetCall(g2, m), Call("financial_portfolio_weights", f)>> :
        g1 \in {Half, One, I(2), I(4)}, g2 \in {Half, One, I(2), I(4)},
        m \in InvestorMarkets, f \in FinancialOnlyArgs}

Scripts ==
    PvAnnuityScripts \cup StreamScripts \cup HumanCapitalScripts
        \cup PvExpensesScripts \cup ExpenseDurationScripts
        \cup LevelExpenseScripts \cup RetiredExpenseScripts
        \cup TargetScripts \cup InvestorScripts

InitCalc ==
    /\ pc = "calc"
    /\ script \in Scripts
    /\ results = <<>>
    /\ projection = <<>>
    /\ args = NoArgs
    /\ mkt = NoMarket
    /\ optimal_weights = AllCash
    /\ age = 0
    /\ current_financial_wealth = Zero
    /\ records = <<>>
    /\ calls = <<>>
    /\ fargs = NoCall
    /\ fret = AllCash

SpecCalc == InitCalc /\ [][NextCalc]_vars

\* ------------------------------------------------------------------------
\* Properties
\* ------------------------------------------------------------------------

Snapshots == 1 .. Len(records)

InUnit(w) == RLe(Zero, w) /\ RLe(w, One)

Sum3(x, y, z) == RAdd(RAdd(x, y), z)

\* C1: in every snapshot of a glide path each of stock_weight, bond_weight
\* and cash_weight lies in [0, 1] and the three sum to 1.
C1_WeightsValid ==
    \A i \in Snapshots :
        LET r == records[i]
        IN  /\ InUnit(r.stock_weight)
            /\ InUnit(r.bond_weight)
            /\ InUnit(r.cash_weight)
            /\ Sum3(r.stock_weight, r.bond_weight, r.cash_weight) = One

\* A finished run with a snapshot that mixes the three assets and a snapshot
\* where the renormalisation after clipping changed the weights.
C1_Witness ==
    /\ pc = "done"
    /\ \E i \in Snapshots :
           /\ RLt(Zero, records[i].stock_weight)
           /\ RLt(Zero, records[i].bond_weight)
           /\ RLt(Zero, records[i].cash_weight)
    /\ \E i \in Snapshots :
           /\ records[i].cash_weight = Zero
           /\ RLt(Zero, records[i].bond_weight)
           /\ RLt(records[i].stock_weight, One)

\* C2: for current_age <= life_expectancy the run ends normally after at most
\* life_expectancy - current_age + 1 iterations (age grows by one per
\* snapshot and the loop is left at life_expectancy + 1), and it has then
\* emitted exactly life_expectancy - current_age + 1 snapshots, for the ages
\* current_age, current_age + 1, ..., life_expectancy in this order and none
\* beyond life_expectancy.
C2_OneSnapshotPerAge ==
    args.current_age <= args.life_expectancy =>
        /\ \A i \in Snapshots :
               /\ records[i].age = args.current_age + i - 1
               /\ records[i].age <= args.life_expectancy
        /\ pc # "error"
        /\ pc \in {"loop", "done"} =>
               /\ age = args.current_age + Len(records)
               /\ age <= args.life_expectancy + 1
        /\ pc = "done" =>
               Len(records) = args.life_expectancy - args.current_age + 1

C2_Witness ==
    /\ pc = "done"
    /\ args.current_age < args.life_expectancy
    /\ Len(records) >= 3
    /\ records[Len(records)].age = args.life_expectancy

\* C3: in every snapshot whose age is at least retirement_age the
\* pv_human_capital is exactly 0, and so is the human-capital duration given
\* to the optimizer in that year.
C3_NoHumanCapitalInRetirement ==
    \A i \in Snapshots :
        records[i].age >= args.retirement_age =>
            /\ records[i].pv_human_capital = Zero
            /\ calls[i].human_capital_duration = Zero

\* A run that crosses retirement: human capital before, a snapshot at the
\* retirement age itself.
C3_Witness ==
    /\ pc = "done"
    /\ \E i \in Snapshots : RLt(Zero, records[i].pv_human_capital)
    /\ \E i \in Snapshots : records[i].age = args.retirement_age

\* C4: with initial financial_assets >= 0 the financial_wealth of every
\* snapshot is >= 0.
C4_WealthNeverNegative ==
    RLe(Zero, args.financial_assets) =>
        \A i \in Snapshots : RLe(Zero, records[i].financial_wealth)

\* Positive wealth wiped out within one year by a stock return below -100%.
C4_Witness ==
    /\ RLt(Zero, args.financial_assets)
    /\ RLt(args.stock_geo_return, I(-1))
    /\ \E i \in Snapshots :
           /\ i > 1
           /\ records[i].financial_wealth = Zero
           /\ RLt(Zero, records[i - 1].financial_wealth)
           /\ RLt(Half, records[i - 1].stock_weight)

C5_Return(r) ==
    Sum3(RMul(r.stock_weight, args.stock_geo_return),
         RMul(r.bond_weight, args.bond_geo_return),
         RMul(r.cash_weight, args.cash_return))

C5_Cashflow(r) ==
    IF r.age < args.retirement_age
    THEN RSub(args.annual_income, args.working_expenses)
    ELSE RNeg(args.retirement_expenses)

C5_Unfloored(r) ==
    RAdd(RMul(r.financial_wealth, RAdd(One, C5_Return(r))), C5_Cashflow(r))

\* C5: the first snapshot's financial_wealth is the input financial_assets,
\* and each next one is max(0, wealth * (1 + weighted return) + cashflow)
\* with the weights of the earlier snapshot and the cashflow
\* annual_income - working_expenses before retirement_age,
\* -retirement_expenses from then on.
C5_WealthIsTheFold ==
    /\ Len(records) >= 1 => records[1].financial_wealth = args.financial_assets
    /\ \A i \in Snapshots :
           i < Len(records) =>
               records[i + 1].financial_wealth =
                   (IF RLt(C5_Unfloored(records[i]), Zero)
                    THEN Zero ELSE C5_Unfloored(records[i]))

\* A working year with savings, positive wealth in all three assets and a
\* stock return that differs from the cash return.
C5_Witness ==
    /\ Len(records) >= 2
    /\ args.stock_geo_return # args.cash_return
    /\ records[1].age < args.retirement_age
    /\ RLt(Zero, records[1].stock_weight)
    /\ records[1].stock_weight # records[1].bond_weight
    /\ RLt(Zero, records[2].financial_wealth)
    /\ RLt(Zero, args.annual_income)

\* C6: in every snapshot total_wealth = financial_wealth + pv_human_capital
\* - pv_expenses with the projected financial_wealth of that snapshot, which
\* is also the financial_assets argument of that year's optimizer call.
C6_TotalWealthUsesProjected ==
    \A i \in Snapshots :
        LET r == records[i]
        IN  /\ r.total_wealth =
                   RSub(RAdd(r.financial_wealth, r.pv_human_capital),
                        r.pv_expenses)
            /\ calls[i].financial_assets = r.financial_wealth
            /\ calls[i].total_wealth = r.total_wealth

\* A later snapshot whose projected wealth differs from the initial assets,
\* with human capital and expenses both present.
C6_Witness ==
    \E i \in Snapshots :
        /\ i > 1
        /\ records[i].financial_wealth # args.financial_assets
        /\ RLt(Zero, records[i].pv_human_capital)
        /\ RLt(Zero, records[i].pv_expenses)

C7_Target ==
    optimal_total_wealth_weights(args.risk_aversion, args.stock_excess_return,
                                 args.bond_excess_return,
                                 RMul(args.stock_volatility, args.stock_volatility),
                                 RMul(args.bond_volatility, args.bond_volatility))

\* C7: the target weights given to the optimizer are the same in every year
\* of a run and equal optimal_total_wealth_weights of the risk aversion, the
\* excess returns and the variances; they depend on nothing else.
C7_TargetWeightsConstant ==
    /\ pc # "start" => optimal_weights = C7_Target
    /\ \A i \in Snapshots : calls[i].optimal_weights = C7_Target

\* Three optimizer calls at different wealth and human capital, same target.
C7_Witness ==
    /\ Len(calls) >= 3
    /\ RLt(Zero, args.annual_income)
    /\ calls[1].financial_assets # calls[3].financial_assets
    /\ calls[1].pv_human_capital # calls[3].pv_human_capital

C9_Raw(c) ==
    LET bond_like == RMul(RSub(One, c.income_beta), c.pv_human_capital)
        hc_share == RDiv(c.human_capital_duration, c.ltpz_duration)
        exp_share == RDiv(c.expense_duration, c.ltpz_duration)
        stocks == RSub(RMul(c.optimal_weights.stocks, c.total_wealth),
                       RMul(c.income_beta, c.pv_human_capital))
        bonds == RAdd(RSub(RMul(c.optimal_weights.bonds, c.total_wealth),
                           RMul(hc_share, bond_like)),
                      RMul(exp_share, c.pv_expenses))
        cash == RAdd(RSub(RMul(c.optimal_weights.cash, c.total_wealth),
                          RMul(RSub(One, hc_share), bond_like)),
                     RMul(RSub(One, exp_share), c.pv_expenses))
    IN  Weights(RDiv(stocks, c.financial_assets),
                RDiv(bonds, c.financial_assets),
                RDiv(cash, c.financial_assets))

C9_Clipped(w) == IF RLt(w, Zero) THEN Zero ELSE IF RLt(One, w) THEN One ELSE w

C9_AllClippedToZero ==
    /\ pc = "returned"
    /\ RLt(Zero, fargs.financial_assets)
    /\ fargs.constrained
    /\ fargs.ltpz_duration # Zero
    /\ RLt(C9_Raw(fargs).stocks, Zero)
    /\ RLe(C9_Raw(fargs).bonds, Zero)
    /\ RLe(C9_Raw(fargs).cash, Zero)
    /\ fret = AllCash

C10_NonZeroDivisors ==
    /\ args.risk_aversion # Zero
    /\ args.stock_volatility # Zero
    /\ args.bond_volatility # Zero
    /\ args.ltpz_duration # Zero
    /\ args.risk_free_rate = Zero \/ RLt(I(-1), args.risk_free_rate)

Returned(fn) == {i \in 1 .. Len(results) : script[i].fn = fn}

\* A call of optimal_total_wealth_weights is defined when neither divisor
\* risk_aversion * variance is zero.
C11_Defined(a) ==
    /\ RMul(a.risk_aversion, a.stock_variance) # Zero
    /\ RMul(a.risk_aversion, a.bond_variance) # Zero

\* C11: wherever it is defined, optimal_total_wealth_weights returns
\* stocks = stock_excess_return / (risk_aversion * stock_variance),
\* bonds = bond_excess_return / (risk_aversion * bond_variance) and
\* cash = 1 - stocks - bonds, unclipped, so the three weights sum to 1.
C11_TargetWeightsFormula ==
    \A i \in Returned("optimal_total_wealth_weights") :
        LET a == script[i].args
            w == results[i]
        IN  C11_Defined(a) =>
                /\ ~IsErr(w.stocks) /\ ~IsErr(w.bonds) /\ ~IsErr(w.cash)
                /\ RMul(w.stocks, RMul(a.risk_aversion, a.stock_variance))
                       = a.stock_excess_return
                /\ RMul(w.bonds, RMul(a.risk_aversion, a.bond_variance))
                       = a.bond_excess_return
                /\ w.cash = RSub(RSub(One, w.stocks), w.bonds)
                /\ Sum3(w.stocks, w.bonds, w.cash) = One

\* A leveraged target: stocks above 1 and cash below 0, summing to 1.
C11_Witness ==
    \E i \in Returned("optimal_total_wealth_weights") :
        /\ C11_Defined(script[i].args)
        /\ RLt(One, results[i].stocks)
        /\ RLt(results[i].cash, Zero)
        /\ Sum3(results[i].stocks, results[i].bonds, results[i].cash) = One

\* Two returned calls of optimal_total_wealth_weights, both defined, with
\* 0 < g1 < g2 and the same excess returns and variances.
C12_Pair(i, j) ==
    /\ i \in Returned("optimal_total_wealth_weights")
    /\ j \in Returned("optimal_total_wealth_weights")
    /\ C11_Defined(script[i].args)
    /\ C11_Defined(script[j].args)
    /\ RLt(Zero, script[i].args.risk_aversion)
    /\ RLt(script[i].args.risk_aversion, script[j].args.risk_aversion)
    /\ [script[i].args EXCEPT !.risk_aversion = Zero]
           = [script[j].args EXCEPT !.risk_aversion = Zero]

\* C12 as written: for every market, the higher risk aversion gives strictly
\* less in stocks and strictly more in cash.
C12_StrictForEveryMarket ==
    \A i, j \in 1 .. Len(results) :
        C12_Pair(i, j) =>
            /\ RLt(results[j].stocks, results[i].stocks)
            /\ RLt(results[i].cash, results[j].cash)

\* The ratios excess return / variance that the monotonicity depends on.
C12_StockRatio(a) == RDiv(a.stock_excess_return, a.stock_variance)

C12_BondRatio(a) == RDiv(a.bond_excess_return, a.bond_variance)

\* C12 (amended): for 0 < g1 < g2 and the same market, the stocks weight is
\* strictly smaller at g2 when stock_excess_return / stock_variance > 0, and
\* the cash weight is strictly larger at g2 when the two ratios
\* excess return / variance sum to more than 0.
C12_StrictForPositivePremia ==
    \A i, j \in 1 .. Len(results) :
        C12_Pair(i, j) =>
            LET a == script[i].args
            IN  /\ RLt(Zero, C12_StockRatio(a)) =>
                       RLt(results[j].stocks, results[i].stocks)
                /\ RLt(Zero, RAdd(C12_StockRatio(a), C12_BondRatio(a))) =>
                       RLt(results[i].cash, results[j].cash)

\* Both calls returned, with a positive stock premium and risk aversion 1, 2.
C12_Witness ==
    /\ Len(results) = 2
    /\ C12_Pair(1, 2)
    /\ RLt(Zero, C12_StockRatio(script[1].args))
    /\ RLt(Zero, RAdd(C12_StockRatio(script[1].args),
                      C12_BondRatio(script[1].args)))
    /\ RLt(results[2].stocks, results[1].stocks)
    /\ RLt(results[1].cash, results[2].cash)

\* C13: for n_periods <= 0, pv_annuity and annuity_duration return 0 for
\* every payment and every rate, 0 and -1 included: the period check comes
\* before every other branch.
C13_NoStreamIsWorthZero ==
    /\ \A i \in Returned("pv_annuity") :
           script[i].args.n_periods <= 0 => results[i] = Zero
    /\ \A i \in Returned("annuity_duration") :
           script[i].args.n_periods <= 0 => results[i] = Zero

\* A stream of no periods at rate 0 or -1 and a payment other than 0: both
\* its present value and its duration were returned as 0.
C13_Witness ==
    /\ Len(results) = 2
    /\ script[1].fn = "pv_annuity"
    /\ script[2].fn = "annuity_duration"
    /\ script[1].args.n_periods <= 0
    /\ script[1].args.payment # Zero
    /\ script[1].args.rate \in {Zero, I(-1)}
    /\ results = <<Zero, Zero>>

\* C14: at rate 0 and n >= 1, pv_annuity is payment * n and annuity_duration
\* is (n + 1) / 2; at rate 0, pv_expenses is
\* working_expenses * years_working + retirement_expenses * years_retirement
\* for year counts that are not negative.
C14_ZeroRateLimits ==
    /\ \A i \in Returned("pv_annuity") :
           LET a == script[i].args
           IN  a.rate = Zero /\ a.n_periods >= 1 =>
                   results[i] = RMul(a.payment, I(a.n_periods))
    /\ \A i \in Returned("annuity_duration") :
           LET a == script[i].args
           IN  a.rate = Zero /\ a.n_periods >= 1 =>
                   RMul(results[i], I(2)) = I(a.n_periods + 1)
    /\ \A i \in Returned("pv_expenses") :
           LET a == script[i].args
           IN  a.risk_free_rate = Zero /\ a.years_working >= 0
                   /\ a.years_retirement >= 0 =>
                   results[i] = RAdd(RMul(a.working_expenses, I(a.years_working)),
                                     RMul(a.retirement_expenses,
                                          I(a.years_retirement)))

\* A three-period stream of 2 at rate 0: present value 6, duration 2.
C14_Witness ==
    /\ Len(results) = 2
    /\ script[1].fn = "pv_annuity"
    /\ script[2].fn = "annuity_duration"
    /\ script[1].args.rate = Zero
    /\ script[1].args.n_periods = 3
    /\ script[1].args.payment = I(2)
    /\ results = <<I(6), I(2)>>

\* Two returned calls of pv_annuity with the same positive payment and the
\* same n_periods >= 1, the first at the lower rate.
C15_Pair(i, j) ==
    /\ i \in Returned("pv_annuity")
    /\ j \in Returned("pv_annuity")
    /\ script[i].args.payment = script[j].args.payment
    /\ script[i].args.n_periods = script[j].args.n_periods
    /\ RLt(Zero, script[i].args.payment)
    /\ script[i].args.n_periods >= 1
    /\ RLt(script[i].args.rate, script[j].args.rate)

\* C15 as written: for any two rates r1 < r2 the present value at r2 is
\* strictly below the one at r1.
C15_DecreasingForEveryRate ==
    \A i, j \in 1 .. Len(results) :
        C15_Pair(i, j) =>
            /\ ~IsErr(results[i]) /\ ~IsErr(results[j])
            /\ RLt(results[j], results[i])

\* C15 (amended): for payment > 0, n_periods >= 1 and two rates
\* -1 < r1 < r2, pv_annuity at r2 is strictly below pv_annuity at r1, also
\* when one of the rates is 0.
C15_DecreasingAboveMinusOne ==
    \A i, j \in 1 .. Len(results) :
        C15_Pair(i, j) /\ RLt(I(-1), script[i].args.rate) =>
            /\ ~IsErr(results[i]) /\ ~IsErr(results[j])
            /\ RLt(results[j], results[i])

\* The zero-rate branch on either side of a closed-form value.
C15_Witness ==
    /\ Len(results) = 2
    /\ C15_Pair(1, 2)
    /\ RLt(I(-1), script[1].args.rate)
    /\ Zero \in {script[1].args.rate, script[2].args.rate}
    /\ script[1].args.n_periods >= 2
    /\ RLt(results[2], results[1])

\* The CAPM discount rate of a pv_human_capital call.
C16_Rate(a) == RAdd(a.risk_free_rate, RMul(a.income_beta, a.equity_premium))

\* Two returned calls of pv_human_capital that differ in income_beta only,
\* with annual_income > 0, years_working >= 1 and equity_premium > 0.
C16_Pair(i, j) ==
    /\ i \in Returned("pv_human_capital")
    /\ j \in Returned("pv_human_capital")
    /\ [script[i].args EXCEPT !.income_beta = Zero]
           = [script[j].args EXCEPT !.income_beta = Zero]
    /\ RLt(Zero, script[i].args.annual_income)
    /\ script[i].args.years_working >= 1
    /\ RLt(Zero, script[i].args.equity_premium)
    /\ RLt(script[i].args.income_beta, script[j].args.income_beta)

\* pv_human_capital is pv_annuity at the CAPM discount rate.
C16_Delegates ==
    \A i \in Returned("pv_human_capital") :
        LET a == script[i].args
        IN  results[i] = pv_annuity(a.annual_income, C16_Rate(a), a.years_working)

\* C16 as written: the delegation, and a strictly lower present value for
\* the larger income_beta whatever the risk-free rate.
C16_LowerForEveryRate ==
    /\ C16_Delegates
    /\ \A i, j \in 1 .. Len(results) :
           C16_Pair(i, j) =>
               /\ ~IsErr(results[i]) /\ ~IsErr(results[j])
               /\ RLt(results[j], results[i])

\* C16 (amended): pv_human_capital equals pv_annuity(annual_income,
\* risk_free_rate + income_beta * equity_premium, years_working); for
\* annual_income > 0, years_working >= 1, equity_premium > 0 and a discount
\* rate above -1 at the smaller income_beta, the larger income_beta gives a
\* strictly lower present value.
C16_LowerAboveMinusOne ==
    /\ C16_Delegates
    /\ \A i, j \in 1 .. Len(results) :
           C16_Pair(i, j) /\ RLt(I(-1), C16_Rate(script[i].args)) =>
               /\ ~IsErr(results[i]) /\ ~IsErr(results[j])
               /\ RLt(results[j], results[i])

\* Bond-like against stock-like income over several years.
C16_Witness ==
    /\ Len(results) = 2
    /\ C16_Pair(1, 2)
    /\ script[1].args.income_beta = Zero
    /\ RLe(Zero, script[1].args.risk_free_rate)
    /\ script[1].args.years_working >= 2
    /\ RLt(results[2], results[1])
    /\ RLt(Zero, results[2])

\* The PV-weighted average of the two expense durations, from its parts.
C17_Weighted(a) ==
    LET r == a.risk_free_rate
        pv_working == pv_annuity(a.working_expenses, r, a.years_working)
        pv_retirement_today ==
            RMul(pv_annuity(a.retirement_expenses, r, a.years_retirement),
                 RPow(RAdd(One, r), -a.years_working))
        total == RAdd(pv_working, pv_retirement_today)
        working_part == RMul(pv_working, annuity_duration(r, a.years_working))
        retirement_part ==
            RMul(pv_retirement_today,
                 RAdd(I(a.years_working), annuity_duration(r, a.years_retirement)))
    IN  IF a.years_working <= 0 /\ a.years_retirement <= 0 THEN Zero
        ELSE IF total = Zero THEN Zero
        ELSE RDiv(RAdd(working_part, retirement_part), total)

\* C17: expense_duration is 0 when both horizons are <= 0 or the combined
\* present value is 0, and otherwise the average of the working stream's
\* duration and of years_working plus the retirement stream's duration,
\* weighted by the two present values discounted to today.
C17_ExpenseDurationFormula ==
    \A i \in Returned("expense_duration") :
        results[i] = C17_Weighted(script[i].args)

\* Both streams present at a rate other than 0: the result lies strictly
\* between the two durations it averages.
C17_Witness ==
    \E i \in Returned("expense_duration") :
        LET a == script[i].args
        IN  /\ a.years_working >= 2
            /\ a.years_retirement >= 2
            /\ a.working_expenses = One
            /\ a.retirement_expenses = I(2)
            /\ a.risk_free_rate = One
            /\ RLt(annuity_duration(One, a.years_working), results[i])
            /\ RLt(results[i], RAdd(I(a.years_working),
                                    annuity_duration(One, a.years_retirement)))

\* ------------------------------------------------------------------------
\* Further properties of the glide path
\* ------------------------------------------------------------------------

\* C18: every snapshot has years_to_retirement = max(0, retirement_age - age);
\* from one snapshot to the next it never increases, it falls by exactly 1
\* while age < retirement_age, and it is 0 from retirement_age onward.
C18_YearsToRetirementCountsDown ==
    /\ \A i \in Snapshots :
           LET left == args.retirement_age - records[i].age
           IN  /\ records[i].years_to_retirement = IF left > 0 THEN left ELSE 0
               /\ records[i].age >= args.retirement_age =>
                      records[i].years_to_retirement = 0
    /\ \A i \in Snapshots :
           i + 1 \in Snapshots =>
               /\ records[i + 1].years_to_retirement
                      <= records[i].years_to_retirement
               /\ records[i].age < args.retirement_age =>
                      records[i + 1].years_to_retirement
                          = records[i].years_to_retirement - 1

\* A finished run that starts two years before retirement and ends after it.
C18_Witness ==
    /\ pc = "done"
    /\ Len(records) >= 4
    /\ records[1].years_to_retirement = 2
    /\ records[3].years_to_retirement = 0
    /\ records[Len(records)].age > args.retirement_age
    /\ records[Len(records)].years_to_retirement = 0

\* The step in which project_wealth is called and ends.
C19_Called == pc = "done" /\ pc' # "done"

\* What the claim says of a call: the input table is left as it was, and
\* the returned table has its rows and columns plus projected_financial_wealth
\* equal to financial_wealth.
C19_View ==
    /\ pc' = "projected"
    /\ records' = records
    /\ \A i \in DOMAIN records : "projected_financial_wealth" \notin DOMAIN records'[i]
    /\ DOMAIN projection' = DOMAIN records
    /\ \A i \in DOMAIN records :
           /\ DOMAIN projection'[i] = DOMAIN records[i] \cup {"projected_financial_wealth"}
           /\ \A c \in DOMAIN records[i] : projection'[i][c] = records[i][c]
           /\ projection'[i].projected_financial_wealth = records[i].financial_wealth

\* C19 as written: for every table, project_wealth returns the view and
\* leaves its input unchanged.
C19_ViewOfEveryTable == [][C19_Called => C19_View]_vars

\* C19 (amended): for every table that has a financial_wealth column (every
\* glide path of at least one row), project_wealth leaves its input unchanged
\* and returns a table with every original row and column preserved plus a
\* projected_financial_wealth column equal to financial_wealth, whatever
\* savings and return arguments are passed.
C19_ViewOfEveryTableWithRows == [][C19_Called /\ records # <<>> => C19_View]_vars

\* A view of several rows whose wealth changes from row to row.
C19_Witness ==
    /\ pc = "projected"
    /\ Len(projection) >= 3
    /\ Len(records) = Len(projection)
    /\ projection[3].projected_financial_wealth = records[3].financial_wealth
    /\ projection[3].projected_financial_wealth # projection[1].projected_financial_wealth

\* ------------------------------------------------------------------------
\* Risk aversion and the financial weights
\* ------------------------------------------------------------------------

\* Calls i and j returned the target weights of two investors with risk
\* aversion g1 < g2 in the same market, and calls i + 1 and j + 1 the
\* constrained financial weights of each, for an investor with no human
\* capital, no expenses and total_wealth = financial_assets > 0.
C20_Pair(i, j) ==
    /\ i \in Returned("optimal_total_wealth_weights")
    /\ j \in Returned("optimal_total_wealth_weights")
    /\ i + 1 \in Returned("financial_portfolio_weights")
    /\ j + 1 \in Returned("financial_portfolio_weights")
    /\ script[i + 1].args = script[j + 1].args
    /\ script[i + 1].args.pv_human_capital = Zero
    /\ script[i + 1].args.pv_expenses = Zero
    /\ script[i + 1].args.total_wealth = script[i + 1].args.financial_assets
    /\ RLt(Zero, script[i + 1].args.financial_assets)
    /\ script[i + 1].args.constrained
    /\ [script[i].args EXCEPT !.risk_aversion = Zero]
           = [script[j].args EXCEPT !.risk_aversion = Zero]
    /\ RLt(script[i].args.risk_aversion, script[j].args.risk_aversion)

\* The higher risk aversion got strictly less in stocks and more in cash.
C20_MoreConservative(i, j) ==
    /\ RLt(results[j + 1].stocks, results[i + 1].stocks)
    /\ RLt(results[i + 1].cash, results[j + 1].cash)

\* C20 as written: for any g1 < g2 the financial stock weight is lower and
\* the cash weight higher at g2.
C20_ConservativeForEveryPair ==
    \A i, j \in 1 .. Len(results) : C20_Pair(i, j) => C20_MoreConservative(i, j)

\* The target weights need no clipping: all three lie in [0, 1], and the
\* stocks target is positive.
C20_Unlevered(w) ==
    /\ RLt(Zero, w.stocks)
    /\ InUnit(w.stocks)
    /\ InUnit(w.bonds)
    /\ InUnit(w.cash)

\* C20 (amended): for 0 < g1 < g2 such that the target weights at g1 all lie
\* in [0, 1] with a positive stocks target, the constrained financial stock
\* weight at g2 is lower and the cash weight higher than at g1.
C20_ConservativeWhenUnlevered ==
    \A i, j \in 1 .. Len(results) :
        C20_Pair(i, j) /\ RLt(Zero, script[i].args.risk_aversion)
                /\ C20_Unlevered(results[i]) =>
            C20_MoreConservative(i, j)

\* Both investors' weights were returned, the first one unlevered.
C20_Witness ==
    /\ Len(results) = 4
    /\ C20_Pair(1, 3)
    /\ C20_Unlevered(results[1])
    /\ RLt(results[1].bonds, results[1].stocks)
    /\ C20_MoreConservative(1, 3)
    /\ RLt(Zero, results[4].stocks)


\* ------------------------------------------------------------------------
\* C21: compute_glide_path is deterministic and keeps nothing between calls:
\* while a second call with the same arguments runs, the snapshots it has
\* appended so far are the first snapshots of the table the first call
\* returned, and the table it returns is that table.
\* ------------------------------------------------------------------------

C21_SecondCall == results # <<>> /\ pc \in {"loop", "done"}

C22_OutOfOrder(a) ==
    \/ a.retirement_age <= a.current_age
    \/ a.life_expectancy <= a.retirement_age
    \/ a.life_expectancy < a.current_age

\* The retirement years left at age g, floored at 0.
C22_RetirementYears(a, g) ==
    LET from == IF g > a.retirement_age THEN g ELSE a.retirement_age
    IN  IF a.life_expectancy > from THEN a.life_expectancy - from ELSE 0

C22_SnapshotSound(i) ==
    LET r == records[i]
        n == C22_RetirementYears(args, r.age)
    IN  /\ r.years_to_retirement >= 0
        /\ n >= 0
        /\ r.pv_expenses = pv_expenses(args.working_expenses, args.retirement_expenses, r.years_to_retirement, n, args.risk_free_rate)
        /\ calls[i].expense_duration = expense_duration(r.years_to_retirement, n, args.working_expenses, args.retirement_expenses, args.risk_free_rate)
        /\ ~IsErr(r.stock_weight) /\ ~IsErr(r.bond_weight) /\ ~IsErr(r.cash_weight)
        /\ InUnit(r.stock_weight) /\ InUnit(r.bond_weight) /\ InUnit(r.cash_weight)
        /\ Sum3(r.stock_weight, r.bond_weight, r.cash_weight) = One

C22_OutOfOrderStillCompletes ==
    C22_OutOfOrder(args) =>
        /\ pc # "error"
        /\ \A i \in DOMAIN records : C22_SnapshotSound(i)
        /\ pc = "done" =>
               Len(records) = IF args.life_expectancy >= args.current_age
                              THEN args.life_expectancy - args.current_age + 1
                              ELSE 0

\* A call whose retirement age lies beyond the life expectancy has returned
\* at least two snapshots and the investor has retirement expenses.
C22_Witness ==
    /\ pc = "done"
    /\ args.life_expectancy < args.retirement_age
    /\ args.retirement_expenses # Zero
    /\ Len(records) >= 2


\* ------------------------------------------------------------------------
\* C23: in every snapshot with years_to_retirement > 0 the recorded
\* pv_human_capital is the annuity of annual_income over the working years
\* left, discounted at risk_free_rate + income_beta * stock excess return,
\* with the income_beta and the stock excess return of the call.
\* ------------------------------------------------------------------------

C23_CapmRate == RAdd(args.risk_free_rate, RMul(args.income_beta, mkt.stock_excess_return))

C23_HumanCapitalAtCapmRate ==
    \A i \in DOMAIN records :
        records[i].years_to_retirement > 0 =>
            records[i].pv_human_capital = pv_annuity(args.annual_income, C23_CapmRate, records[i].years_to_retirement)


\* ------------------------------------------------------------------------
\* C24: the stock and bond geometric returns used to project next year's
\* wealth are excess return - 0.5 * volatility^2 + risk_free_rate for the
\* market assumptions of the call, also when the caller overrides only some
\* of them: the wealth carried out of a simulated year is the wealth of its
\* snapshot grown at the snapshot's weights times those returns, plus the
\* year's cash flow, floored at 0.
\* ------------------------------------------------------------------------

C24_Geometric(excess, volatility) ==
    RAdd(RSub(excess, RMul(Half, RMul(volatility, volatility))), args.risk_free_rate)

C24_Projected(r) ==
    LET ret == RAdd(RAdd(RMul(r.stock_weight, C24_Geometric(mkt.stock_excess_return, mkt.stock_volatility)),
                         RMul(r.bond_weight, C24_Geometric(mkt.bond_excess_return, mkt.bond_volatility))),
                    RMul(r.cash_weight, args.cash_return))
        flow == IF r.years_to_retirement > 0
                THEN RSub(args.annual_income, args.working_expenses)
                ELSE RNeg(args.retirement_expenses)
    IN  RMax(Zero, RAdd(RMul(r.financial_wealth, RAdd(One, ret)), flow))

C24_ProjectedAtDerivedReturns ==
    pc \in {"loop", "done"} /\ records # <<>> =>
        current_financial_wealth = C24_Projected(records[Len(records)])


\* ------------------------------------------------------------------------
\* C25: with the same expense e in both phases, years_working >= 0,
\* years_retirement >= 0 and a rate above -1, pv_expenses returns what
\* pv_annuity returns for e over years_working + years_retirement periods;
\* and with years_working = 0 it returns what pv_annuity returns for the
\* retirement expenses over years_retirement periods.
\* ------------------------------------------------------------------------

\* A script of two calls, pv_expenses and then pv_annuity, has been run.
C25_Compared ==
    /\ Len(script) = 2 /\ Len(results) = 2
    /\ script[1].fn = "pv_expenses" /\ script[2].fn = "pv_annuity"
    /\ script[1].args.risk_free_rate = script[2].args.rate

C25_InDomain ==
    /\ script[1].args.years_working >= 0
    /\ script[1].args.years_retirement >= 0
    /\ RLt(I(-1), script[1].args.risk_free_rate)

\* One expense level, compared with the annuity over both phases.
C25_Level ==
    /\ script[1].args.working_expenses = script[1].args.retirement_expenses
    /\ script[2].args.payment = script[1].args.retirement_expenses
    /\ script[2].args.n_periods = script[1].args.years_working + script[1].args.years_retirement

\* No working years left, compared with the retirement annuity.
C25_Retired ==
    /\ script[1].args.years_working = 0
    /\ script[2].args.payment = script[1].args.retirement_expenses
    /\ script[2].args.n_periods = script[1].args.years_retirement

C25_SingleAnnuity ==
    C25_Compared /\ C25_InDomain /\ (C25_Level \/ C25_Retired) =>
        ~IsErr(results[1]) /\ results[1] = results[2]

\* Both phases have years, the rate is neither 0 nor an integer, and the
\* common expense is worth something.
C25_Witness ==
    /\ C25_Compared /\ C25_InDomain /\ C25_Level
    /\ script[1].args.years_working >= 1
    /\ script[1].args.years_retirement >= 2
    /\ script[1].args.risk_free_rate = Half
    /\ results[1] # Zero


\* ------------------------------------------------------------------------
\* C26: in the main flow the dashboard, and with it every computation of
\* the core, runs only when retirement_age > current_age and
\* life_expectancy > retirement_age; when either fails, main shows the
\* warning and returns, and nothing of the core has been called.
\* ------------------------------------------------------------------------

C26_Ordered ==
    /\ args.retirement_age > args.current_age
    /\ args.life_expectancy > args.retirement_age

\* Neither the optimizer nor compute_glide_path has been entered.
C26_CoreUntouched ==
    /\ fargs = NoCall /\ fret = AllCash
    /\ mkt = NoMarket /\ records = <<>> /\ calls = <<>> /\ projection = <<>>

C26_CoreOnlyForOrderedAges ==
    /\ pc \notin {"main", "warned"} => C26_Ordered
    /\ pc = "warned" => ~C26_Ordered
    /\ ~C26_Ordered => pc \in {"main", "warned"} /\ C26_CoreUntouched

\* Main has returned with the warning for an investor who retires after the
\* current age but whose life expectancy does not exceed the retirement age.
C26_Witness ==
    /\ pc = "warned"
    /\ args.retirement_age > args.current_age
    /\ args.life_expectancy <= args.retirement_age


\* ------------------------------------------------------------------------
\* C30: the values the dashboard computes for the current age (the present
\* values of human capital and of expenses, total wealth and the constrained
\* financial weights) are the fields of the first snapshot of the glide path
\* the dashboard obtains for the same investor and market assumptions.
\* ------------------------------------------------------------------------

C30_FirstSnapshotMatches ==
    records # <<>> =>
        /\ fargs.pv_human_capital = records[1].pv_human_capital
        /\ fargs.pv_expenses = records[1].pv_expenses
        /\ fargs.total_wealth = records[1].total_wealth
        /\ fret.stocks = records[1].stock_weight
        /\ fret.bonds = records[1].bond_weight
        /\ fret.cash = records[1].cash_weight


\* ------------------------------------------------------------------------
\* C27: with retirement_expenses >= 0, once a snapshot at an age >=
\* retirement_age has financial_wealth = 0, every later snapshot has
\* financial_wealth = 0 and the weights (0, 0, 1); in a working year with
\* annual_income > working_expenses a snapshot with financial_wealth = 0 is
\* followed by one with financial_wealth = annual_income - working_expenses.
\* ------------------------------------------------------------------------

C27_Broke(i) == records[i].financial_wealth = Zero

C27_AbsorbingInRetirement ==
    RLe(Zero, args.retirement_expenses) =>
        \A i \in DOMAIN records : \A j \in DOMAIN records :
            i < j /\ records[i].age >= args.retirement_age /\ C27_Broke(i) =>
                /\ C27_Broke(j)
                /\ records[j].stock_weight = Zero
                /\ records[j].bond_weight = Zero
                /\ records[j].cash_weight = One

C27_RefilledWhileWorking ==
    RLt(args.working_expenses, args.annual_income) =>
        \A i \in DOMAIN records :
            /\ i + 1 \in DOMAIN records
            /\ records[i].age < args.retirement_age
            /\ C27_Broke(i)
            => records[i + 1].financial_wealth = RSub(args.annual_income, args.working_expenses)

C27_ZeroWealthAbsorbing == C27_AbsorbingInRetirement /\ C27_RefilledWhileWorking

\* An investor who started working with nothing saved the first year's
\* surplus, retired, spent it down to zero, and a later snapshot follows.
C27_Witness ==
    /\ RLt(args.working_expenses, args.annual_income)
    /\ records # <<>>
    /\ records[1].age < args.retirement_age
    /\ C27_Broke(1)
    /\ \E i \in DOMAIN records :
           /\ 1 < i /\ i < Len(records)
           /\ records[i].age >= args.retirement_age
           /\ RLt(Zero, records[i - 1].financial_wealth)
           /\ C27_Broke(i)


\* ------------------------------------------------------------------------
\* C28: when current_age <= life_expectancy and retirement_age <=
\* life_expectancy, the last snapshot of the returned table is the one of
\* age life_expectancy; it has pv_human_capital = 0, pv_expenses = 0 and
\* total_wealth = financial_wealth, and the wealth projected from it for the
\* year after is in no snapshot: the table has no row past life_expectancy.
\* ------------------------------------------------------------------------

C28_InScope ==
    /\ args.current_age <= args.life_expectancy
    /\ args.retirement_age <= args.life_expectancy

C28_LastSnapshotIsBare ==
    pc = "done" /\ C28_InScope =>
        /\ Len(records) = args.life_expectancy - args.current_age + 1
        /\ \A i \in DOMAIN records : records[i].age = args.current_age + i - 1
        /\ LET last == records[Len(records)]
           IN  /\ last.age = args.life_expectancy
               /\ last.pv_human_capital = Zero
               /\ last.pv_expenses = Zero
               /\ last.total_wealth = last.financial_wealth

\* A table of at least two snapshots of an investor with retirement
\* expenses has been returned, and the wealth projected out of the last
\* year differs from the wealth of the last snapshot.
C28_Witness ==
    /\ pc = "done" /\ C28_InScope
    /\ Len(records) >= 2
    /\ args.retirement_expenses # Zero
    /\ RLt(Zero, records[Len(records)].financial_wealth)
    /\ current_financial_wealth # records[Len(records)].financial_wealth


\* ------------------------------------------------------------------------
\* C29: for financial_assets > 0, constrained = False, ltpz_duration # 0,
\* target weights that sum to 1 and total_wealth = financial_assets +
\* pv_human_capital - pv_expenses, the three weights returned by
\* financial_portfolio_weights sum to 1 whatever income_beta and the two
\* durations are; and with pv_human_capital = 0 and pv_expenses = 0 the
\* returned weights are the target weights.
\* ------------------------------------------------------------------------

C29_InScope ==
    /\ pc = "returned"
    /\ RLt(Zero, fargs.financial_assets)
    /\ ~fargs.constrained
    /\ fargs.ltpz_duration # Zero
    /\ Sum3(fargs.optimal_weights.stocks, fargs.optimal_weights.bonds, fargs.optimal_weights.cash) = One
    /\ fargs.total_wealth = RSub(RAdd(fargs.financial_assets, fargs.pv_human_capital), fargs.pv_expenses)

====
